---- MODULE Spec2Model ----
(***************************************************************************)
(* A model of src/src/main.rs: a single-port HTTP/1.1 server that spawns   *)
(* one task per accepted connection.  Byte strings are sequences of        *)
(* one-character strings; an Option/Result is a sequence of length 0       *)
(* (None/Err) or 1 (Some/Ok).                                              *)
(***************************************************************************)
EXTENDS Integers, Sequences, FiniteSets, TLC

\* ------------------------------------------------------------------ bounds

\* Number of connections the accept loop takes before the model stops it.
MaxConn == 2

\* ------------------------------------------------------------------- bytes

CR == "\r"
LF == "\n"
SP == " "
\* The zero byte of vec![0; con_length].
NUL == "<00>"
\* A byte that is not valid UTF-8 wherever it stands.
XFF == "<FF>"

CRLF == <<CR, LF>>

Some(x) == <<x>>
None == <<>>
IsSome(o) == Len(o) = 1
Unwrap(o) == o[1]

Min(a, b) == IF a < b THEN a ELSE b

\* String::from_utf8 as read_line and read_to_string apply it.
IsUtf8(s) == \A i \in 1..Len(s) : s[i] # XFF

\* char::is_whitespace on the bytes of the model's alphabet.
IsWhitespace(ch) == ch \in {SP, "\t", CR, LF}

\* Iterator::nth on a sequence (0-based).
Nth(s, n) == IF n + 1 <= Len(s) THEN Some(s[n + 1]) ELSE None

RECURSIVE SplitWsFrom(_, _, _)
SplitWsFrom(s, i, cur) ==
    IF i > Len(s)
    THEN (IF cur = <<>> THEN <<>> ELSE <<cur>>)
    ELSE IF IsWhitespace(s[i])
         THEN (IF cur = <<>> THEN <<>> ELSE <<cur>>) \o SplitWsFrom(s, i + 1, <<>>)
         ELSE SplitWsFrom(s, i + 1, Append(cur, s[i]))

\* str::split_whitespace: the maximal runs of non-whitespace.
SplitWhitespace(s) == SplitWsFrom(s, 1, <<>>)

RECURSIVE SplitFrom(_, _, _, _)
SplitFrom(s, sep, i, cur) ==
    IF i > Len(s)
    THEN <<cur>>
    ELSE IF s[i] = sep
         THEN <<cur>> \o SplitFrom(s, sep, i + 1, <<>>)
         ELSE SplitFrom(s, sep, i + 1, Append(cur, s[i]))

\* str::split on a one-byte pattern: empty pieces are kept.
Split(s, sep) == SplitFrom(s, sep, 1, <<>>)

\* str::get(k..): None when k is past the end.
GetFrom(s, k) == IF k <= Len(s) THEN Some(SubSeq(s, k + 1, Len(s))) ELSE None

\* str::split_once on a one-byte pattern: split at the first occurrence.
SplitOnce(s, sep) ==
    IF \E i \in 1..Len(s) : s[i] = sep
    THEN LET i == CHOOSE j \in 1..Len(s) :
                      s[j] = sep /\ \A k \in 1..(j - 1) : s[k] # sep
         IN  Some(<<SubSeq(s, 1, i - 1), SubSeq(s, i + 1, Len(s))>>)
    ELSE None

RECURSIVE TrimStart(_)
TrimStart(s) ==
    IF s # <<>> /\ IsWhitespace(s[1]) THEN TrimStart(Tail(s)) ELSE s

RECURSIVE TrimEnd(_)
TrimEnd(s) ==
    IF s # <<>> /\ IsWhitespace(s[Len(s)])
    THEN TrimEnd(SubSeq(s, 1, Len(s) - 1))
    ELSE s

\* str::trim.
Trim(s) == TrimEnd(TrimStart(s))

Digits == <<"0", "1", "2", "3", "4", "5", "6", "7", "8", "9">>

DigitChar(d) == Digits[d + 1]

IsDigit(ch) == \E d \in 0..9 : Digits[d + 1] = ch

DigitValue(ch) == CHOOSE d \in 0..9 : Digits[d + 1] = ch

RECURSIVE ToDecimal(_)
\* Display for an unsigned integer: decimal, no padding.
ToDecimal(n) ==
    IF n < 10 THEN <<DigitChar(n)>> ELSE Append(ToDecimal(n \div 10), DigitChar(n % 10))

RECURSIVE DigitsValue(_)
DigitsValue(s) ==
    IF s = <<>> THEN 0
    ELSE 10 * DigitsValue(SubSeq(s, 1, Len(s) - 1)) + DigitValue(s[Len(s)])

\* str::parse::<usize>: an optional '+', then one or more decimal digits.
ParseUsize(s) ==
    LET d == IF s # <<>> /\ s[1] = "+" THEN Tail(s) ELSE s
    IN  IF d # <<>> /\ \A i \in 1..Len(d) : IsDigit(d[i])
        THEN Some(DigitsValue(d))
        ELSE None

\* vec![0; n]
Zeros(n) == [i \in 1..n |-> NUL]

\* ----------------------------------------------------------- message model

OK == 200
Created == 201
BadRequest == 400
NotFound == 404

StrOK == <<"O", "K">>
StrCreated == <<"C", "r", "e", "a", "t", "e", "d">>
StrBadRequest == <<"B", "a", "d", " ", "R", "e", "q", "u", "e", "s", "t">>
StrNotFound == <<"N", "o", "t", " ", "F", "o", "u", "n", "d">>
StrHttp11 == <<"H", "T", "T", "P", "/", "1", ".", "1">>
StrContentLength ==
    <<"C", "o", "n", "t", "e", "n", "t", "-", "L", "e", "n", "g", "t", "h">>
StrContentType == <<"C", "o", "n", "t", "e", "n", "t", "-", "T", "y", "p", "e">>
StrUserAgent == <<"U", "s", "e", "r", "-", "A", "g", "e", "n", "t">>
StrTextPlain == <<"t", "e", "x", "t", "/", "p", "l", "a", "i", "n">>
StrOctetStream ==
    <<"a", "p", "p", "l", "i", "c", "a", "t", "i", "o", "n", "/",
      "o", "c", "t", "e", "t", "-", "s", "t", "r", "e", "a", "m">>
StrGET == <<"G", "E", "T">>
StrPOST == <<"P", "O", "S", "T">>
StrEcho == <<"e", "c", "h", "o">>
StrFiles == <<"f", "i", "l", "e", "s">>
StrUserAgentRoute == <<"u", "s", "e", "r", "-", "a", "g", "e", "n", "t">>

\* An HTTPResponse value.
HTTPResponse(code, message, headers, body) ==
    [code |-> code, message |-> message, headers |-> headers, body |-> body]

RECURSIVE JoinHeaders(_)
JoinHeaders(hs) ==
    IF hs = <<>> THEN <<>> ELSE hs[1] \o CRLF \o JoinHeaders(Tail(hs))

\* HTTPResponse::format
Format(r) ==
    LET hdrs == IF IsSome(r.headers) THEN JoinHeaders(Unwrap(r.headers)) ELSE <<>>
        body == IF IsSome(r.body) THEN Unwrap(r.body) ELSE <<>>
    IN  StrHttp11 \o <<SP>> \o ToDecimal(r.code) \o <<SP>> \o r.message
            \o CRLF \o hdrs \o CRLF \o body

\* ContentLengthLine that counts one byte too many.
ContentLengthLineOneMore(content) ==
    StrContentLength \o <<":", SP>> \o ToDecimal(Len(content) + 1)

\* format!("Content-Length: {}", content.len())
ContentLengthLine(content) ==
    StrContentLength \o <<":", SP>> \o ToDecimal(Len(content))

\* The 200 response of the echo, user-agent and file routes.
ContentResponse(type, content) ==
    HTTPResponse(OK, StrOK,
                 Some(<<StrContentType \o <<":", SP>> \o type,
                        ContentLengthLine(content)>>),
                 Some(content))

BareResponse(code, message) == HTTPResponse(code, message, None, None)

\* ------------------------------------------------------- connection handler

\* line.split_whitespace().nth(1): the request target.
RequestTarget(line) == Nth(SplitWhitespace(line), 1)

StrHttp10 == <<"H", "T", "T", "P", "/", "1", ".", "0">>
StrHttp20 == <<"H", "T", "T", "P", "/", "2", ".", "0">>

\* HTTPVersion::from_str succeeds: the handler never calls it.
IsHTTPVersion(token) == token \in {StrHttp10, StrHttp11, StrHttp20}

\* RequestMethod of a handler that insists on a version token it knows.
RequestMethodVersioned(line) ==
    IF IsSome(Nth(SplitWhitespace(line), 2))
           /\ IsHTTPVersion(Unwrap(Nth(SplitWhitespace(line), 2)))
    THEN Nth(SplitWhitespace(line), 0)
    ELSE None

\* line.split_whitespace().nth(0): the raw method token.
RequestMethod(line) == Nth(SplitWhitespace(line), 0)

\* An empty HashMap.
EmptyMap == [k \in {} |-> <<>>]

\* HashMap::insert: a later value for a key replaces the earlier one.
MapInsert(m, k, v) == [x \in DOMAIN m \cup {k} |-> IF x = k THEN v ELSE m[x]]

\* HashMap::get
MapGet(m, k) == IF k \in DOMAIN m THEN Some(m[k]) ELSE None

\* HeaderInsert without the trim of the value.
HeaderInsertUntrimmed(m, line) ==
    LET kv == SplitOnce(line, ":")
    IN  IF IsSome(kv)
        THEN Some(MapInsert(m, Trim(Unwrap(kv)[1]), Unwrap(kv)[2]))
        ELSE None

\* HeaderInsert that skips a line without a colon instead of panicking.
HeaderInsertLenient(m, line) ==
    LET kv == SplitOnce(line, ":")
    IN  IF IsSome(kv)
        THEN Some(MapInsert(m, Trim(Unwrap(kv)[1]), Trim(Unwrap(kv)[2])))
        ELSE Some(m)

\* HeaderInsert that keeps the first value given for a name.
HeaderInsertKeepFirst(m, line) ==
    LET kv == SplitOnce(line, ":")
    IN  IF IsSome(kv)
        THEN IF Trim(Unwrap(kv)[1]) \in DOMAIN m
             THEN Some(m)
             ELSE Some(MapInsert(m, Trim(Unwrap(kv)[1]), Trim(Unwrap(kv)[2])))
        ELSE None

\* One pass of the header loop on a line that is not the blank line:
\* None is the panic of split_once(":").unwrap().
HeaderInsert(m, line) ==
    LET kv == SplitOnce(line, ":")
    IN  IF IsSome(kv)
        THEN Some(MapInsert(m, Trim(Unwrap(kv)[1]), Trim(Unwrap(kv)[2])))
        ELSE None

\* path.split("/").nth(1): the segment that selects the route.
RouteSegment(path) == Nth(Split(path, "/"), 1)

\* EchoContent with the offset one short: the content keeps the slash.
EchoContentFromFive(path) == GetFrom(path, 5)

\* path.get(6..) of the echo route.
EchoContent(path) == GetFrom(path, 6)

\* path.get(7..) of the files route.
FileName(path) == GetFrom(path, 7)

\* format!("{}/{}", directory, name)
FilePath(dir, name) == dir \o <<"/">> \o name

\* The part of a path below the directory; the directory holds regular files only,
\* so the path names a file that can exist when that part is a plain name.
IsPlainFile(dir, p) ==
    /\ Len(p) > Len(dir) + 1
    /\ SubSeq(p, 1, Len(dir) + 1) = dir \o <<"/">>
    /\ \A i \in (Len(dir) + 2)..Len(p) : p[i] # "/"

\* fs::read_to_string: Err for a missing file, a directory, or bytes that are not UTF-8.
ReadToString(store, p) ==
    IF p \in DOMAIN store /\ IsUtf8(store[p]) THEN Some(store[p]) ELSE None

\* FileCreate that empties the directory of every other file.
FileCreateAlone(store, dir, p) ==
    IF IsPlainFile(dir, p) THEN Some([x \in {p} |-> <<>>]) ELSE None

\* File::create, the first half of fs::write: creates or truncates; Err (None) when
\* the path is a directory or lies in a directory that does not exist.
FileCreate(store, dir, p) ==
    IF IsPlainFile(dir, p)
    THEN Some([x \in DOMAIN store \cup {p} |-> IF x = p THEN <<>> ELSE store[x]])
    ELSE None

\* write_all, the second half of fs::write, on the handle File::create returned:
\* the bytes go to offset 0 of whatever the file holds by then.
FileWriteAll(store, p, bytes) ==
    LET old == IF p \in DOMAIN store THEN store[p] ELSE <<>>
        new == bytes \o SubSeq(old, Len(bytes) + 1, Len(old))
    IN  [x \in DOMAIN store \cup {p} |-> IF x = p THEN new ELSE store[x]]

Panic == [tag |-> "panic"]
Respond(r) == [tag |-> "response", resp |-> r]
ReadBodyOf(n) == [tag |-> "body", len |-> n]

\* The arm of the files route for GET.
FilesGet(path, store, dir) ==
    IF ~IsSome(FileName(path))
    THEN Panic
    ELSE LET content == ReadToString(store, FilePath(dir, Unwrap(FileName(path))))
         IN  IF ~IsSome(content)
             THEN Respond(BareResponse(NotFound, StrNotFound))
             ELSE Respond(ContentResponse(StrOctetStream, Unwrap(content)))

\* The arm of the files route for POST, up to the allocation of the body buffer.
FilesPost(hdrs) ==
    LET cl == MapGet(hdrs, StrContentLength)
    IN  IF ~IsSome(cl) THEN Panic
        ELSE IF ~IsSome(ParseUsize(Unwrap(cl))) THEN Panic
        ELSE ReadBodyOf(Unwrap(ParseUsize(Unwrap(cl))))

\* FilesRoute that takes every method but GET for an upload.
FilesRouteUpload(method, path, hdrs, store, dir) ==
    IF method = StrGET THEN FilesGet(path, store, dir) ELSE FilesPost(hdrs)

\* The files route: a match on the raw method token.
FilesRoute(method, path, hdrs, store, dir) ==
    IF method = StrGET THEN FilesGet(path, store, dir)
    ELSE IF method = StrPOST THEN FilesPost(hdrs)
    ELSE Respond(BareResponse(BadRequest, StrBadRequest))

\* The echo route.
EchoRoute(path) ==
    IF IsSome(EchoContent(path))
    THEN Respond(ContentResponse(StrTextPlain, Unwrap(EchoContent(path))))
    ELSE Panic

\* The user-agent route.
UserAgentRoute(hdrs) ==
    IF IsSome(MapGet(hdrs, StrUserAgent))
    THEN Respond(ContentResponse(StrTextPlain, Unwrap(MapGet(hdrs, StrUserAgent))))
    ELSE Panic

StrPUT == <<"P", "U", "T">>
StrDELETE == <<"D", "E", "L", "E", "T", "E">>
StrHEAD == <<"H", "E", "A", "D">>
StrPATCH == <<"P", "A", "T", "C", "H">>

\* HTTPMethod::from_str succeeds: the handler never calls it.
IsHTTPMethod(token) == token \in {StrGET, StrPOST, StrPUT, StrDELETE, StrHEAD, StrPATCH}

\* Route of a handler that turns away a method token it does not know.
RouteKnownMethods(method, path, hdrs, store, dir) ==
    LET seg == RouteSegment(path)
    IN  IF ~IsHTTPMethod(method) THEN Respond(BareResponse(BadRequest, StrBadRequest))
        ELSE IF ~IsSome(seg) THEN Panic
        ELSE IF Unwrap(seg) = StrEcho THEN EchoRoute(path)
        ELSE IF Unwrap(seg) = StrUserAgentRoute THEN UserAgentRoute(hdrs)
        ELSE IF Unwrap(seg) = StrFiles THEN FilesRoute(method, path, hdrs, store, dir)
        ELSE IF Unwrap(seg) = <<>> THEN Respond(BareResponse(OK, StrOK))
        ELSE Respond(BareResponse(NotFound, StrNotFound))

\* Route with the 200 arm taken for the path "/" alone: any other path with an
\* empty first segment falls to the 404 arm.
RouteRootOnly(method, path, hdrs, store, dir) ==
    LET seg == RouteSegment(path)
    IN  IF ~IsSome(seg) THEN Panic
        ELSE IF Unwrap(seg) = StrEcho THEN EchoRoute(path)
        ELSE IF Unwrap(seg) = StrUserAgentRoute THEN UserAgentRoute(hdrs)
        ELSE IF Unwrap(seg) = StrFiles THEN FilesRoute(method, path, hdrs, store, dir)
        ELSE IF path = <<"/">> THEN Respond(BareResponse(OK, StrOK))
        ELSE Respond(BareResponse(NotFound, StrNotFound))

\* The match of handle_connection on the route segment.
Route(method, path, hdrs, store, dir) ==
    LET seg == RouteSegment(path)
    IN  IF ~IsSome(seg) THEN Panic
        ELSE IF Unwrap(seg) = StrEcho THEN EchoRoute(path)
        ELSE IF Unwrap(seg) = StrUserAgentRoute THEN UserAgentRoute(hdrs)
        ELSE IF Unwrap(seg) = StrFiles THEN FilesRoute(method, path, hdrs, store, dir)
        ELSE IF Unwrap(seg) = <<>> THEN Respond(BareResponse(OK, StrOK))
        ELSE Respond(BareResponse(NotFound, StrNotFound))

\* ---------------------------------------------------------------- clients

\* "<METHOD> <target> HTTP/1.1\r\n"
RequestLine(method, target) == method \o <<SP>> \o target \o <<SP>> \o StrHttp11 \o CRLF

\* "<METHOD> <target> <version>\r\n", or "<METHOD> <target>\r\n" with no version token.
RequestLineV(method, target, version) ==
    method \o <<SP>> \o target
        \o (IF version = <<>> THEN <<>> ELSE <<SP>> \o version) \o CRLF

\* "<Name>: <value>\r\n"
HeaderLine(name, value) == name \o <<":", SP>> \o value \o CRLF

StrHost == <<"H", "o", "s", "t">>
PathRoot == <<"/">>
PathEcho == <<"/">> \o StrEcho \o <<"/">>
PathFiles == <<"/">> \o StrFiles \o <<"/">>
PathUserAgent == <<"/">> \o StrUserAgentRoute
PathNonexistent == <<"/", "n", "o", "n", "e", "x", "i", "s", "t", "e", "n", "t">>

\* What a client sends: the head (request line, header lines, blank line) and the
\* bytes after it.
Request(head, body) == [head |-> head, body |-> body]

HostX == HeaderLine(StrHost, <<"x">>)

\* The texts echoed, none with a slash.
EchoTexts == {<<"a", "b", "c">>, <<>>, <<"a", "%", "2", "0">>}

\* The User-Agent values sent.
AgentValues == {<<"c", "/", "1">>}

\* The file names used, below the directory.
NameA == <<"a">>
NameB == <<"b">>

\* The bodies posted.
Bodies == {<<"h", "i">>, <<"y">>, <<XFF>>}

\* GET /echo/<t>, with a Host header.
EchoRequest(t) == Request(RequestLine(StrGET, PathEcho \o t) \o HostX \o CRLF, <<>>)

EchoRequests == {EchoRequest(t) : t \in EchoTexts}

UserAgentRequests ==
    {Request(RequestLine(StrGET, PathUserAgent) \o HostX
                 \o HeaderLine(StrUserAgent, v) \o CRLF, <<>>) : v \in AgentValues}

PostRequest(name, n, body) ==
    Request(RequestLine(StrPOST, PathFiles \o name)
                \o HeaderLine(StrContentLength, ToDecimal(n)) \o CRLF, body)

GetRequest(target) == Request(RequestLine(StrGET, target) \o CRLF, <<>>)

\* A POST whose file cannot be written: its path is the directory itself.
UnwritableRequest == PostRequest(<<>>, 1, <<"y">>)

FileRequests ==
    {PostRequest(NameA, Len(b), b) : b \in Bodies}
        \cup {GetRequest(PathFiles \o NameA), GetRequest(PathFiles \o NameB),
              GetRequest(PathFiles), GetRequest(<<"/">> \o StrFiles),
              UnwritableRequest,
              Request(RequestLine(StrPUT, PathFiles \o NameA) \o CRLF, <<>>)}

PlainTargets == {PathRoot, PathNonexistent, <<"/", "/", "x">>}

PlainRequests == {GetRequest(t) : t \in PlainTargets}

\* Two requests sent back to back on one connection.
PipelinedRequest ==
    Request(RequestLine(StrGET, PathRoot) \o CRLF
                \o RequestLine(StrGET, PathNonexistent) \o CRLF, <<>>)

NoColonRequest ==
    Request(RequestLine(StrGET, PathRoot) \o StrHost \o <<SP, "x">> \o CRLF \o CRLF, <<>>)
NoAgentRequest == Request(RequestLine(StrGET, PathUserAgent) \o HostX \o CRLF, <<>>)
CutOffRequest == Request(RequestLine(StrGET, PathRoot) \o HostX, <<>>)

\* Requests the handler cannot parse or cannot serve.
MalformedRequests ==
    {Request(<<>>, <<>>),
     Request(StrGET \o CRLF, <<>>),
     NoColonRequest,
     CutOffRequest,
     NoAgentRequest,
     Request(RequestLine(StrPOST, PathFiles \o NameA) \o HostX \o CRLF, <<"y">>)}

Requests ==
    EchoRequests \cup UserAgentRequests \cup FileRequests \cup PlainRequests
        \cup MalformedRequests \cup {PipelinedRequest}

\* The --directory argument.
Dir == <<"d">>

\* The directory as the server finds it at startup: file a exists, file b does not.
InitialStore == [p \in {FilePath(Dir, NameA)} |-> <<"o", "l", "d">>]

\* ------------------------------------------------------------------ state

VARIABLES
    menu,        \* the requests the clients of this run choose from
    listening,   \* the accept loop of main is running
    nconn,       \* connections accepted so far
    directory,   \* the directory string handed to every task
    fs,          \* the files below the directory: path -> bytes
    req,         \* per connection: what its client set out to send
    unsent,      \* per connection: bytes the client has not sent yet
    eof,         \* per connection: the client has closed its sending side
    sock,        \* per connection: bytes arrived at the socket, not yet read
    rbuf,        \* per connection: bytes in the BufReader's buffer
    pc,          \* per connection: where the task stands
    line,        \* per connection: the request line
    headers,     \* per connection: the header map
    body,        \* per connection: the body buffer of the POST arm
    resp,        \* per connection: the response built by the match (an Option)
    out,         \* per connection: bytes written to the stream
    log,         \* per connection: what the task did to its stream, in order
    consumed,    \* per connection: the bytes its reads have returned, in order
    before       \* per connection: the tasks that had ended when it was accepted

vars ==
    <<menu, listening, nconn, directory, fs, req, unsent, eof, sock, rbuf, pc, line,
      headers, body, resp, out, log, consumed, before>>

Conns == 1..MaxConn

Terminal == {"Closed", "Aborted"}

\* The state after main has bound the listener, with clients that send requests of m.
InitWith(m) ==
    /\ menu = m
    /\ listening = TRUE
    /\ nconn = 0
    /\ directory = Dir
    /\ fs = InitialStore
    /\ req = [c \in Conns |-> Request(<<>>, <<>>)]
    /\ unsent = [c \in Conns |-> <<>>]
    /\ eof = [c \in Conns |-> FALSE]
    /\ sock = [c \in Conns |-> <<>>]
    /\ rbuf = [c \in Conns |-> <<>>]
    /\ pc = [c \in Conns |-> "NotAccepted"]
    /\ line = [c \in Conns |-> <<>>]
    /\ headers = [c \in Conns |-> EmptyMap]
    /\ body = [c \in Conns |-> <<>>]
    /\ resp = [c \in Conns |-> None]
    /\ out = [c \in Conns |-> <<>>]
    /\ log = [c \in Conns |-> <<>>]
    /\ consumed = [c \in Conns |-> <<>>]
    /\ before = [c \in Conns |-> {}]

Init == InitWith(Requests)

\* ----------------------------------------------------------------- stream

HasLF(s) == \E i \in 1..Len(s) : s[i] = LF

FirstLF(s) == CHOOSE i \in 1..Len(s) : s[i] = LF /\ \A j \in 1..(i - 1) : s[j] # LF

\* read_line returns once a line feed is buffered or the stream has ended.
LineReady(c) == HasLF(rbuf[c] \o sock[c]) \/ eof[c]

\* read_line on the BufReader: the line (through its line feed, or to the end of the
\* stream), the buffer and the socket queue it leaves.  The buffer is refilled from
\* the socket only when it holds no line feed, and then takes all that has arrived.
ReadLine(buf, queue) ==
    LET all == buf \o queue
    IN  IF HasLF(buf)
        THEN [line |-> SubSeq(buf, 1, FirstLF(buf)),
              rbuf |-> SubSeq(buf, FirstLF(buf) + 1, Len(buf)), sock |-> queue]
        ELSE IF HasLF(all)
        THEN [line |-> SubSeq(all, 1, FirstLF(all)),
              rbuf |-> SubSeq(all, FirstLF(all) + 1, Len(all)), sock |-> <<>>]
        ELSE [line |-> all, rbuf |-> <<>>, sock |-> <<>>]

\* ReadOnce that hands on only the bytes it was given, a buffer cut to their number.
ReadOnceCut(buf, queue, n) ==
    LET src == IF buf # <<>> THEN buf ELSE queue
        k == Min(n, Len(src))
    IN  [taken |-> SubSeq(src, 1, k),
         data |-> SubSeq(src, 1, k),
         rbuf |-> SubSeq(src, k + 1, Len(src)),
         sock |-> IF buf # <<>> THEN queue ELSE <<>>]

\* reader.read(&mut body) on the BufReader: one read.  Buffered bytes are served
\* first and alone; with an empty buffer the socket is read once.
ReadOnce(buf, queue, n) ==
    LET src == IF buf # <<>> THEN buf ELSE queue
        k == Min(n, Len(src))
    IN  [taken |-> SubSeq(src, 1, k),
         data |-> SubSeq(src, 1, k) \o Zeros(n - k),
         rbuf |-> SubSeq(src, k + 1, Len(src)),
         sock |-> IF buf # <<>> THEN queue ELSE <<>>]

\* ---------------------------------------------------------------- actions

\* A panic that is not confined to its task: it takes the accept loop down with it.
PanicInProcess(c) ==
    /\ pc' = [pc EXCEPT ![c] = "Aborted"]
    /\ listening' = FALSE

\* A panic (or an Err unwrapped in the spawned closure) ends the task it occurs in;
\* the runtime catches it and main's loop goes on.
PanicInTask(c) ==
    /\ pc' = [pc EXCEPT ![c] = "Aborted"]
    /\ listening' = listening

Goto(c, label) ==
    /\ pc' = [pc EXCEPT ![c] = label]
    /\ listening' = listening

\* A handler that goes back for another request on the same stream.
AfterResponseKeepAlive == "AwaitRequestLine"

\* Where the task stands once write_all has returned: the handler returns.
AfterResponse == "Closed"

\* main: listener.accept() and tokio::spawn of the task for the new socket.
Accept ==
    /\ listening
    /\ nconn < MaxConn
    /\ \E r \in menu :
          LET c == nconn + 1
          IN  /\ nconn' = c
              /\ req' = [req EXCEPT ![c] = r]
              /\ unsent' = [unsent EXCEPT ![c] = r.head \o r.body]
              /\ pc' = [pc EXCEPT ![c] = "AwaitRequestLine"]
              /\ before' = [before EXCEPT ![c] = {d \in Conns : pc[d] \in Terminal}]
    /\ UNCHANGED <<menu, listening, directory, fs, eof, sock, rbuf, line, headers,
                   body, resp, out, log, consumed>>

Open(c) == pc[c] \notin Terminal \cup {"NotAccepted"}

\* The places where an arrival may end: after a line of the head, anywhere in the
\* bytes after the head, and at the end of what the client sends.
IsCut(c, k) ==
    \/ k = Len(unsent[c])
    \/ unsent[c][k] = LF
    \/ Len(unsent[c]) - k < Len(req[c].body)

\* The client's next bytes arrive at the socket.
ClientSend(c) ==
    /\ Open(c)
    /\ ~eof[c]
    /\ \E k \in 1..Len(unsent[c]) :
          /\ IsCut(c, k)
          /\ sock' = [sock EXCEPT ![c] = @ \o SubSeq(unsent[c], 1, k)]
          /\ unsent' = [unsent EXCEPT ![c] = SubSeq(@, k + 1, Len(@))]
    /\ UNCHANGED <<menu, listening, nconn, directory, fs, req, eof, rbuf, pc, line,
                   headers, body, resp, out, log, consumed, before>>

\* The client, having sent all it set out to send, closes its sending side.  The end
\* of the stream follows every byte sent, so a reader meets it only when it is at a
\* read with no whole line left before it: the close is taken at such a point.
ClientClose(c) ==
    /\ pc[c] \in {"AwaitRequestLine", "AwaitHeaders", "AwaitBody"}
    /\ ~eof[c]
    /\ unsent[c] = <<>>
    /\ ~HasLF(rbuf[c] \o sock[c])
    /\ eof' = [eof EXCEPT ![c] = TRUE]
    /\ UNCHANGED <<menu, listening, nconn, directory, fs, req, unsent, sock, rbuf, pc, line,
                   headers, body, resp, out, log, consumed, before>>

\* The first read_line and the two unwraps on the request line.
ReadRequestLine(c) ==
    /\ pc[c] = "AwaitRequestLine"
    /\ LineReady(c)
    /\ \E r \in {ReadLine(rbuf[c], sock[c])} :
           /\ rbuf' = [rbuf EXCEPT ![c] = r.rbuf]
           /\ sock' = [sock EXCEPT ![c] = r.sock]
           /\ consumed' = [consumed EXCEPT ![c] = @ \o r.line]
           /\ log' = [log EXCEPT ![c] = Append(@, "request-line")]
           /\ line' = [line EXCEPT ![c] = r.line]
           /\ IF IsUtf8(r.line) /\ IsSome(RequestTarget(r.line))
                  /\ IsSome(RequestMethod(r.line))
              THEN Goto(c, "AwaitHeaders")
              ELSE PanicInTask(c)
    /\ UNCHANGED <<menu, nconn, directory, fs, req, unsent, eof, headers, body, resp, out,
                   before>>

\* One pass of the header loop.
ReadHeaderLine(c) ==
    /\ pc[c] = "AwaitHeaders"
    /\ LineReady(c)
    /\ \E r \in {ReadLine(rbuf[c], sock[c])} :
           /\ rbuf' = [rbuf EXCEPT ![c] = r.rbuf]
           /\ sock' = [sock EXCEPT ![c] = r.sock]
           /\ consumed' = [consumed EXCEPT ![c] = @ \o r.line]
           /\ IF ~IsUtf8(r.line)
              THEN /\ PanicInTask(c)
                   /\ UNCHANGED <<headers, log>>
              ELSE IF r.line = CRLF
              THEN /\ Goto(c, "Dispatch")
                   /\ log' = [log EXCEPT ![c] = Append(@, "blank-line")]
                   /\ UNCHANGED headers
              ELSE /\ log' = [log EXCEPT ![c] = Append(@, "header-line")]
                   /\ IF IsSome(HeaderInsert(headers[c], r.line))
                      THEN /\ headers' = [headers EXCEPT
                                             ![c] = Unwrap(HeaderInsert(@, r.line))]
                           /\ Goto(c, "AwaitHeaders")
                      ELSE /\ PanicInTask(c)
                           /\ UNCHANGED headers
    /\ UNCHANGED <<menu, nconn, directory, fs, req, unsent, eof, line, body, resp, out,
                   before>>

\* The match on the route segment, up to the response value or, in the POST arm of
\* the files route, the allocation of the body buffer.
Dispatch(c) ==
    /\ pc[c] = "Dispatch"
    /\ \E r \in {Route(Unwrap(RequestMethod(line[c])), Unwrap(RequestTarget(line[c])),
                       headers[c], fs, directory)} :
           IF r.tag = "panic"
           THEN /\ PanicInTask(c)
                /\ UNCHANGED <<resp, body>>
           ELSE IF r.tag = "response"
           THEN /\ resp' = [resp EXCEPT ![c] = Some(r.resp)]
                /\ Goto(c, "WriteResponse")
                /\ UNCHANGED body
           ELSE /\ body' = [body EXCEPT ![c] = Zeros(r.len)]
                /\ Goto(c, "AwaitBody")
                /\ UNCHANGED resp
    /\ UNCHANGED <<menu, nconn, directory, fs, req, unsent, eof, sock, rbuf, line, headers,
                   out, log, consumed, before>>

\* reader.read(&mut body).await: returns once the buffer holds bytes, bytes have
\* arrived, or the stream has ended.
ReadBody(c) ==
    /\ pc[c] = "AwaitBody"
    /\ rbuf[c] # <<>> \/ sock[c] # <<>> \/ eof[c]
    /\ \E r \in {ReadOnce(rbuf[c], sock[c], Len(body[c]))} :
           /\ body' = [body EXCEPT ![c] = r.data]
           /\ rbuf' = [rbuf EXCEPT ![c] = r.rbuf]
           /\ sock' = [sock EXCEPT ![c] = r.sock]
           /\ consumed' = [consumed EXCEPT ![c] = @ \o r.taken]
    /\ log' = [log EXCEPT ![c] = Append(@, "body")]
    /\ Goto(c, "CreateFile")
    /\ UNCHANGED <<menu, nconn, directory, fs, req, unsent, eof, line, headers, resp, out,
                   before>>

\* fs::write, first half: the path is formatted and the file created or truncated.
CreateFile(c) ==
    /\ pc[c] = "CreateFile"
    /\ LET name == FileName(Unwrap(RequestTarget(line[c])))
       IN  IF IsSome(name) /\ IsSome(FileCreate(fs, directory, FilePath(directory, Unwrap(name))))
           THEN /\ fs' = Unwrap(FileCreate(fs, directory, FilePath(directory, Unwrap(name))))
                /\ Goto(c, "WriteFile")
           ELSE /\ PanicInTask(c)
                /\ UNCHANGED fs
    /\ UNCHANGED <<menu, nconn, directory, req, unsent, eof, sock, rbuf, line, headers,
                   body, resp, out, log, consumed, before>>

\* fs::write, second half: the buffer is written; then the 201 response is built.
WriteFile(c) ==
    /\ pc[c] = "WriteFile"
    /\ fs' = FileWriteAll(fs, FilePath(directory,
                                       Unwrap(FileName(Unwrap(RequestTarget(line[c]))))),
                          body[c])
    /\ resp' = [resp EXCEPT ![c] = Some(BareResponse(Created, StrCreated))]
    /\ Goto(c, "WriteResponse")
    /\ UNCHANGED <<menu, nconn, directory, req, unsent, eof, sock, rbuf, line, headers,
                   body, out, log, consumed, before>>

\* write_all(response.format()), after which the handler returns.
WriteResponse(c) ==
    /\ pc[c] = "WriteResponse"
    /\ out' = [out EXCEPT ![c] = @ \o Format(Unwrap(resp[c]))]
    /\ log' = [log EXCEPT ![c] = Append(@, "response")]
    /\ Goto(c, AfterResponse)
    /\ UNCHANGED <<menu, nconn, directory, fs, req, unsent, eof, sock, rbuf, line, headers,
                   body, resp, consumed, before>>

Step(c) ==
    \/ ClientSend(c)
    \/ ClientClose(c)
    \/ ReadRequestLine(c)
    \/ ReadHeaderLine(c)
    \/ Dispatch(c)
    \/ ReadBody(c)
    \/ CreateFile(c)
    \/ WriteFile(c)
    \/ WriteResponse(c)

Next == Accept \/ \E c \in Conns : Step(c)

Spec == Init /\ [][Next]_vars

\* ------------------------------------------------- runs with fewer requests

PostY == PostRequest(NameA, 1, <<"y">>)
PostHi == PostRequest(NameA, 2, <<"h", "i">>)
\* A POST of no bytes: Content-Length: 0 and nothing after the blank line.
PostEmpty == PostRequest(NameA, 0, <<>>)
EchoMenu == EchoRequests \cup {PostY}
AgentMenu == UserAgentRequests \cup {NoAgentRequest, PostY}
PlainMenu == PlainRequests \cup {PostY}
StreamMenu == {PipelinedRequest, PostY, CutOffRequest}
MalformedMenu == MalformedRequests \cup {UnwritableRequest, PostY}
IsolationMenu == {NoAgentRequest, UnwritableRequest, PostY}

SpecEcho == InitWith(EchoMenu) /\ [][Next]_vars
SpecAgent == InitWith(AgentMenu) /\ [][Next]_vars
SpecPlain == InitWith(PlainMenu) /\ [][Next]_vars
SpecStream == InitWith(StreamMenu) /\ [][Next]_vars
SpecMalformed == InitWith(MalformedMenu) /\ [][Next]_vars
SpecIsolation == InitWith(IsolationMenu) /\ [][Next]_vars

\* ------------------------------------------------------------ wire bytes

Wire200Bare ==
    <<"H", "T", "T", "P", "/", "1", ".", "1", " ", "2", "0", "0", " ", "O", "K", "\r",
      "\n", "\r", "\n">>

Wire201Bare ==
    <<"H", "T", "T", "P", "/", "1", ".", "1", " ", "2", "0", "1", " ", "C", "r", "e",
      "a", "t", "e", "d", "\r", "\n", "\r", "\n">>

Wire404Bare ==
    <<"H", "T", "T", "P", "/", "1", ".", "1", " ", "4", "0", "4", " ", "N", "o", "t",
      " ", "F", "o", "u", "n", "d", "\r", "\n", "\r", "\n">>

WireTextHead ==
    <<"H", "T", "T", "P", "/", "1", ".", "1", " ", "2", "0", "0", " ", "O", "K", "\r",
      "\n", "C", "o", "n", "t", "e", "n", "t", "-", "T", "y", "p", "e", ":", " ", "t",
      "e", "x", "t", "/", "p", "l", "a", "i", "n", "\r", "\n", "C", "o", "n", "t", "e",
      "n", "t", "-", "L", "e", "n", "g", "t", "h", ":", " ">>

WireOctetHead ==
    <<"H", "T", "T", "P", "/", "1", ".", "1", " ", "2", "0", "0", " ", "O", "K", "\r",
      "\n", "C", "o", "n", "t", "e", "n", "t", "-", "T", "y", "p", "e", ":", " ", "a",
      "p", "p", "l", "i", "c", "a", "t", "i", "o", "n", "/", "o", "c", "t", "e", "t",
      "-", "s", "t", "r", "e", "a", "m", "\r", "\n", "C", "o", "n", "t", "e", "n", "t",
      "-", "L", "e", "n", "g", "t", "h", ":", " ">>

WireEchoAbcRequest ==
    <<"G", "E", "T", " ", "/", "e", "c", "h", "o", "/", "a", "b", "c", " ", "H", "T",
      "T", "P", "/", "1", ".", "1", "\r", "\n", "H", "o", "s", "t", ":", " ", "x",
      "\r", "\n", "\r", "\n">>

WireEchoAbcResponse ==
    <<"H", "T", "T", "P", "/", "1", ".", "1", " ", "2", "0", "0", " ", "O", "K", "\r",
      "\n", "C", "o", "n", "t", "e", "n", "t", "-", "T", "y", "p", "e", ":", " ", "t",
      "e", "x", "t", "/", "p", "l", "a", "i", "n", "\r", "\n", "C", "o", "n", "t", "e",
      "n", "t", "-", "L", "e", "n", "g", "t", "h", ":", " ", "3", "\r", "\n", "\r",
      "\n", "a", "b", "c">>

WireNonexistentRequest ==
    <<"G", "E", "T", " ", "/", "n", "o", "n", "e", "x", "i", "s", "t", "e", "n", "t",
      " ", "H", "T", "T", "P", "/", "1", ".", "1", "\r", "\n", "\r", "\n">>

\* ----------------------------------------------------------------- claims

\* The client of c has sent all of its request.
AllSent(c) == pc[c] # "NotAccepted" /\ unsent[c] = <<>>

\* C3: a GET /echo/<s> request with no slash in <s> is never aborted, and what the
\* handler writes for it is the 200 response with Content-Type: text/plain, a
\* Content-Length that is the decimal byte length of <s>, and <s> itself as the
\* body; for GET /echo/abc with Host: x these are exactly the bytes of the scenario.
C3_EchoResponse ==
    \A c \in Conns : \A t \in EchoTexts :
        req[c] = EchoRequest(t)
            => /\ pc[c] # "Aborted"
               /\ out[c] \in {<<>>, WireTextHead \o <<Digits[Len(t) + 1]>> \o CRLF \o CRLF \o t}
               /\ pc[c] = "Closed" => out[c] # <<>>
               /\ (req[c].head = WireEchoAbcRequest /\ pc[c] = "Closed")
                      => out[c] = WireEchoAbcResponse

C3_Witness ==
    \E c \in Conns :
        /\ req[c].head = WireEchoAbcRequest
        /\ pc[c] = "Closed"
        /\ out[c] = WireEchoAbcResponse

\* C4: a GET /user-agent request that carries a User-Agent header is never aborted,
\* and what the handler writes for it is the 200 response whose body is the value
\* of that header, byte for byte.
C4_UserAgentResponse ==
    \A c \in Conns : \A v \in AgentValues :
        req[c] = Request(RequestLine(StrGET, PathUserAgent) \o HostX
                             \o HeaderLine(StrUserAgent, v) \o CRLF, <<>>)
            => /\ pc[c] # "Aborted"
               /\ out[c] \in {<<>>, WireTextHead \o <<Digits[Len(v) + 1]>> \o CRLF \o CRLF \o v}
               /\ pc[c] = "Closed" => out[c] # <<>>

C4_Witness ==
    \E c \in Conns :
        /\ req[c] \in UserAgentRequests
        /\ pc[c] = "Closed"
        /\ out[c] = WireTextHead \o <<"3">> \o CRLF \o CRLF \o <<"c", "/", "1">>

\* The decimal text of a length below ten, as it stands on the wire.
OneDigit(n) == <<Digits[n + 1]>>

\* The 200 response of the files route for content x, as it stands on the wire.
WireFile(x) == WireOctetHead \o OneDigit(Len(x)) \o CRLF \o CRLF \o x

PathA == FilePath(Dir, NameA)
PathB == FilePath(Dir, NameB)

PostsToA == {PostRequest(NameA, Len(b), b) : b \in Bodies}

\* C1: when a POST /files/a with Content-Length: |B| and body B has completed and a
\* connection accepted after that sends GET /files/a, with no other POST to a in
\* between, the GET is answered 200 with body B.
C1_RoundTrip ==
    \A c1 \in Conns : \A c2 \in Conns : \A b \in Bodies :
        (/\ req[c1] = PostRequest(NameA, Len(b), b)
         /\ pc[c1] = "Closed"
         /\ c1 \in before[c2]
         /\ req[c2] = GetRequest(PathFiles \o NameA)
         /\ pc[c2] = "Closed")
            => out[c2] = WireFile(b)

\* C2: a POST /files/a with Content-Length: n whose client sends exactly n body
\* bytes, in whatever arrivals, is never aborted, is answered 201 Created with no
\* headers and no body, and once it is answered (no other connection posting) the
\* file holds exactly those n bytes.
C2_PostStoresBody ==
    \A c \in Conns : \A b \in Bodies :
        req[c] = PostRequest(NameA, Len(b), b)
            => /\ pc[c] # "Aborted"
               /\ out[c] \in {<<>>, Wire201Bare}
               /\ (pc[c] = "Closed" /\ \A d \in Conns \ {c} : req[d] \notin PostsToA)
                      => /\ out[c] = Wire201Bare
                         /\ PathA \in DOMAIN fs
                         /\ fs[PathA] = b

\* The targets of the files route that the clients GET.
FilesGetTargets ==
    {PathFiles \o NameA, PathFiles \o NameB, PathFiles, <<"/">> \o StrFiles}

\* C5: a GET whose first path segment is "files" is never aborted; it is answered
\* 404 with no headers and no body, or 200 with Content-Type:
\* application/octet-stream, the content's length and the content of a file of the
\* store; and file b, which no request writes, is never created.
C5_FilesGet ==
    /\ PathB \notin DOMAIN fs
    /\ \A c \in Conns : \A t \in FilesGetTargets :
          req[c] = GetRequest(t)
              => /\ pc[c] # "Aborted"
                 /\ pc[c] = "Closed" => out[c] # <<>>
                 /\ \/ out[c] \in {<<>>, Wire404Bare}
                    \/ \E x \in {<<"o", "l", "d">>, <<>>} \cup Bodies
                                \cup {b \o Zeros(k) : b \in {<<>>, <<"h">>}, k \in 0..2} :
                           /\ out[c] = WireFile(x)
                           /\ t = PathFiles \o NameA
                           /\ IsUtf8(x)

\* The first segment of a target that begins with a slash is empty.
FirstSegmentEmpty(t) == Len(t) = 1 \/ t[2] = "/"

\* C6, as stated: a GET of a target that is not exactly "/" and whose first segment
\* is none of echo, user-agent and files is answered 404 with no headers and no
\* body, and a GET of "/" is answered 200 with no headers and no body.
C6_AsStated ==
    \A c \in Conns : \A t \in PlainTargets :
        req[c] = GetRequest(t)
            => /\ pc[c] # "Aborted"
               /\ pc[c] = "Closed" => out[c] # <<>>
               /\ out[c] \in {<<>>, IF t = <<"/">> THEN Wire200Bare ELSE Wire404Bare}

\* C6, amended: a GET of a target that begins with a slash is answered 200 with no
\* headers and no body when the first segment is empty ("/" and "//x" alike), and
\* 404 with no headers and no body when the first segment is none of echo,
\* user-agent, files and the empty string; GET /nonexistent with no header gets
\* exactly HTTP/1.1 404 Not Found, CRLF, CRLF.
C6_UnrecognisedPath ==
    \A c \in Conns : \A t \in PlainTargets :
        req[c] = GetRequest(t)
            => /\ pc[c] # "Aborted"
               /\ pc[c] = "Closed" => out[c] # <<>>
               /\ out[c] \in {<<>>, IF FirstSegmentEmpty(t) THEN Wire200Bare
                                                            ELSE Wire404Bare}
               /\ req[c].head = WireNonexistentRequest
                      => out[c] \in {<<>>, Wire404Bare}

C6_Witness ==
    /\ \E c \in Conns :
          /\ req[c].head = WireNonexistentRequest
          /\ pc[c] = "Closed"
          /\ out[c] = Wire404Bare
    /\ \E c \in Conns :
          /\ req[c] = GetRequest(<<"/", "/", "x">>)
          /\ pc[c] = "Closed"
          /\ out[c] = Wire200Bare

\* The place of a task's position in the sequence AwaitRequestLine, AwaitHeaders,
\* Dispatch, WriteResponse, Closed; an abort may follow any of the first four.
Rank(label) ==
    CASE label = "NotAccepted" -> 0
      [] label = "AwaitRequestLine" -> 1
      [] label = "AwaitHeaders" -> 2
      [] label \in {"Dispatch", "AwaitBody", "CreateFile", "WriteFile"} -> 3
      [] label = "WriteResponse" -> 4
      [] label \in Terminal -> 5

\* What a task may do to its stream, in order: the request line once and first, then
\* header lines, then the blank line once, then at most one body read, then at most
\* one response, and nothing after the response.
LogInOrder(l) ==
    \A i \in 1..Len(l) :
        /\ (i = 1) <=> (l[i] = "request-line")
        /\ l[i] \in {"header-line", "blank-line"}
               => \A j \in 1..(i - 1) : l[j] \in {"request-line", "header-line"}
        /\ l[i] = "body" => i > 1 /\ l[i - 1] = "blank-line"
        /\ l[i] = "response"
               => i = Len(l) /\ i > 1 /\ l[i - 1] \in {"blank-line", "body"}

C7_State ==
    \A c \in Conns :
        /\ LogInOrder(log[c])
        /\ consumed[c] \o rbuf[c] \o sock[c] \o unsent[c] = req[c].head \o req[c].body
        /\ out[c] # <<>>
               => /\ \E i \in 1..Len(log[c]) : log[c][i] = "blank-line"
                  /\ pc[c] = "Closed"
                  /\ IsSome(resp[c])
                  /\ out[c] = Format(Unwrap(resp[c]))
        /\ pc[c] = "Closed" => out[c] # <<>>

C7_Step ==
    \A c \in Conns :
        /\ Rank(pc'[c]) >= Rank(pc[c])
        /\ pc[c] \in Terminal
               => /\ pc'[c] = pc[c]
                  /\ out'[c] = out[c]
                  /\ consumed'[c] = consumed[c]
                  /\ rbuf'[c] = rbuf[c]
                  /\ sock'[c] = sock[c]
                  /\ log'[c] = log[c]

\* C7: a connection moves only forward through AwaitRequestLine, AwaitHeaders,
\* Dispatch, WriteResponse, Closed, or aborts; its reads return the bytes of the
\* stream once each and in order, the request line first and the header lines after
\* it; nothing is written before the blank line has been read; at most one response
\* is written; and after it nothing more is read, whatever is left in the stream.
C7_LinearConnection == []C7_State /\ [][C7_Step]_vars

\* A connection that was sent two requests is closed after one response, with the
\* second request unread.
C7_Witness ==
    \E c \in Conns :
        /\ req[c] = PipelinedRequest
        /\ pc[c] = "Closed"
        /\ out[c] = Wire200Bare
        /\ rbuf[c] \o sock[c] = RequestLine(StrGET, PathNonexistent) \o CRLF

\* All of a connection's own state.
ConnView(c) ==
    <<req[c], unsent[c], eof[c], sock[c], rbuf[c], pc[c], line[c], headers[c],
      body[c], resp[c], out[c], log[c], consumed[c]>>

C8_State ==
    \A c \in Conns :
        req[c] \in MalformedRequests \cup {UnwritableRequest}
            => /\ out[c] = <<>>
               /\ pc[c] \notin {"WriteResponse", "Closed"}
               /\ (eof[c] /\ rbuf[c] \o sock[c] = <<>> /\ ~ENABLED Step(c))
                      => pc[c] = "Aborted"

C8_Step ==
    \A c \in Conns :
        (req[c] \in MalformedRequests /\ ConnView(c)' # ConnView(c)) => fs' = fs

\* C8: a request with no request line, with no request target, with a header line
\* without a colon, cut off before the blank line, or without the header its route
\* needs, and a POST whose file cannot be written, never gets a byte of response:
\* its task can only end aborted; and no step of a task with such a malformed
\* request changes the file store.
C8_MalformedAborts == []C8_State /\ [][C8_Step]_vars

C8_Witness ==
    \E c \in Conns : \E d \in Conns :
        /\ req[c] \in MalformedRequests
        /\ req[d] = UnwritableRequest
        /\ pc[c] = "Aborted"
        /\ pc[d] = "Aborted"
        /\ log[d] = <<"request-line", "header-line", "blank-line", "body">>
        /\ out[c] = <<>>
        /\ out[d] = <<>>

\* C9: when two connections have both completed a POST to /files/a, the file holds
\* the bytes one of them wrote, whole, and nothing else.
C9_LastWriteWins ==
    \A c1 \in Conns : \A c2 \in Conns \ {c1} :
        (/\ req[c1] \in PostsToA
         /\ req[c2] \in PostsToA
         /\ pc[c1] = "Closed"
         /\ pc[c2] = "Closed")
            => /\ PathA \in DOMAIN fs
               /\ fs[PathA] \in {body[c1], body[c2]}

C10_State ==
    /\ listening
    /\ nconn < MaxConn => ENABLED Accept

C10_Step ==
    \A c \in Conns :
        (pc[c] # "Aborted" /\ pc'[c] = "Aborted")
            => /\ listening'
               /\ nconn' = nconn
               /\ fs' = fs
               /\ directory' = directory
               /\ \A d \in Conns \ {c} : ConnView(d)' = ConnView(d)

\* C10: the abort of a task leaves the accept loop running and leaves the file store
\* and every other connection (its stream, its progress, its response) as they
\* were; the accept loop goes on accepting.
C10_Isolation == []C10_State /\ [][C10_Step]_vars

\* After one task has aborted, a connection accepted later is served.
C10_Witness ==
    \E c \in Conns : \E d \in Conns :
        /\ pc[c] = "Aborted"
        /\ c \in before[d]
        /\ pc[d] = "Closed"
        /\ out[d] # <<>>

Wire400Bare ==
    <<"H", "T", "T", "P", "/", "1", ".", "1", " ", "4", "0", "0", " ", "B", "a", "d",
      " ", "R", "e", "q", "u", "e", "s", "t", "\r", "\n", "\r", "\n">>

\* The version tokens the clients send: the three the program names, one it does
\* not, and none at all.
Versions == {StrHttp10, StrHttp11, StrHttp20, <<"H", "T", "T", "P", "/", "9">>, <<>>}

\* GET /nonexistent with version token v and no header.
VersionedRequest(v) == Request(RequestLineV(StrGET, PathNonexistent, v) \o CRLF, <<>>)

VersionedRequests == {VersionedRequest(v) : v \in Versions}

VersionMenu ==
    VersionedRequests
        \cup {Request(RequestLineV(StrGET, PathRoot, StrHttp10) \o CRLF, <<>>),
              Request(RequestLineV(StrPUT, PathFiles \o NameA, <<>>) \o CRLF, <<>>),
              PostEmpty}

SpecVersion == InitWith(VersionMenu) /\ [][Next]_vars

\* The four status lines, as they stand on the wire.
StatusLines ==
    {SubSeq(w, 1, Len(w) - 2) : w \in {Wire200Bare, Wire201Bare, Wire400Bare, Wire404Bare}}

StartsWith(s, prefix) ==
    Len(s) >= Len(prefix) /\ SubSeq(s, 1, Len(prefix)) = prefix

\* C11: whatever a task writes starts with one of the status lines HTTP/1.1 200 OK,
\* HTTP/1.1 201 Created, HTTP/1.1 400 Bad Request, HTTP/1.1 404 Not Found (each
\* ended by CRLF), whatever version token the request carried; and two requests that
\* differ only in the version token (HTTP/1.0, HTTP/1.1, HTTP/2.0, unknown, absent)
\* are both served, with the same bytes.
C11_StatusLine ==
    /\ \A c \in Conns :
          /\ out[c] # <<>> => \E l \in StatusLines : StartsWith(out[c], l)
          /\ pc[c] = "Closed" => out[c] # <<>>
    /\ \A c \in Conns : \A d \in Conns :
          (req[c] \in VersionedRequests /\ req[d] \in VersionedRequests)
              => /\ pc[c] # "Aborted"
                 /\ (pc[c] = "Closed" /\ pc[d] = "Closed") => out[c] = out[d]

\* A request with HTTP/1.0 and the same request with no version token, both answered
\* with the same HTTP/1.1 status line.
C11_Witness ==
    \E c \in Conns : \E d \in Conns :
        /\ req[c] = VersionedRequest(StrHttp10)
        /\ req[d] = VersionedRequest(<<>>)
        /\ pc[c] = "Closed"
        /\ pc[d] = "Closed"
        /\ out[c] = Wire404Bare
        /\ out[d] = Wire404Bare


\* PUT /files/a followed by a byte the handler has no reason to read.
PutWithBody == Request(RequestLine(StrPUT, PathFiles \o NameA) \o CRLF, <<"y">>)

\* Requests to the files route whose method token is neither GET nor POST: four
\* methods the program names and a token it does not (get, in lower case).
OtherMethodRequests ==
    {PutWithBody,
     Request(RequestLine(StrDELETE, PathFiles \o NameA) \o CRLF, <<>>),
     Request(RequestLine(StrHEAD, <<"/">> \o StrFiles) \o CRLF, <<>>),
     Request(RequestLine(StrPATCH, PathFiles \o NameB) \o CRLF, <<>>),
     Request(RequestLine(<<"g", "e", "t">>, PathFiles \o NameA) \o CRLF, <<>>)}

MethodMenu == OtherMethodRequests \cup {PostEmpty}

SpecMethod == InitWith(MethodMenu) /\ [][Next]_vars

C12_State ==
    /\ PathB \notin DOMAIN fs
    /\ \A c \in Conns :
          req[c] \in OtherMethodRequests
              => /\ pc[c] \notin {"Aborted", "AwaitBody", "CreateFile", "WriteFile"}
                 /\ out[c] \in {<<>>, Wire400Bare}
                 /\ pc[c] = "Closed" => out[c] = Wire400Bare
                 /\ \A i \in 1..Len(log[c]) : log[c][i] # "body"
                 /\ Len(consumed[c]) <= Len(req[c].head)
                 /\ body[c] = <<>>

C12_Step ==
    \A c \in Conns :
        (req[c] \in OtherMethodRequests /\ ConnView(c)' # ConnView(c)) => fs' = fs

\* C12: a request to the files route whose method token is neither GET nor POST
\* (PUT, DELETE, HEAD, PATCH, or a token that is no method) is never aborted and is
\* answered HTTP/1.1 400 Bad Request with no headers and no body; its task reads
\* nothing past the blank line, and no step of it changes the file store.
C12_OtherMethod == []C12_State /\ [][C12_Step]_vars

\* A PUT answered 400 with its body byte left unread, and a lower-case get
\* answered 400.
C12_Witness ==
    \E c \in Conns : \E d \in Conns :
        /\ req[c] = PutWithBody
        /\ pc[c] = "Closed"
        /\ out[c] = Wire400Bare
        /\ rbuf[c] \o sock[c] = <<"y">>
        /\ req[d] = Request(RequestLine(<<"g", "e", "t">>, PathFiles \o NameA) \o CRLF, <<>>)
        /\ pc[d] = "Closed"
        /\ out[d] = Wire400Bare

\* The steps of the task of connection c, as against those of its client.
TaskStep(c) ==
    \/ ReadRequestLine(c)
    \/ ReadHeaderLine(c)
    \/ Dispatch(c)
    \/ ReadBody(c)
    \/ CreateFile(c)
    \/ WriteFile(c)
    \/ WriteResponse(c)

\* Requests that are complete as sent: request line, headers, blank line and, for
\* the POST, as many body bytes as Content-Length declares (none).
CompleteRequests == {GetRequest(PathRoot), PostEmpty}

LiveMenu == CompleteRequests \cup {CutOffRequest}

\* The runtime runs every task that can take a step, and a client that has bytes
\* left to send sends them; nothing obliges a client to close.
SpecLive ==
    /\ InitWith(LiveMenu)
    /\ [][Next]_vars
    /\ \A c \in Conns : WF_vars(TaskStep(c)) /\ WF_vars(ClientSend(c))

\* The client of c has delivered a complete request, or has closed its sending side.
Delivered(c) ==
    \/ pc[c] # "NotAccepted" /\ unsent[c] = <<>> /\ req[c] \in CompleteRequests
    \/ eof[c]

\* C13: once the client of an accepted connection has delivered a complete request
\* or has closed its sending side, the task of that connection eventually ends:
\* the response is written and the handler returns, or the task aborts.
C13_Terminates ==
    \A c \in Conns : Delivered(c) ~> (pc[c] \in Terminal)

\* The same, for every connection but one whose complete request is a POST that
\* declares a body of no bytes.
C13_TerminatesWithBody ==
    \A c \in Conns : (Delivered(c) /\ (req[c] # PostEmpty \/ eof[c])) ~> (pc[c] \in Terminal)

\* Targets whose segment after the first slash is echo: /echo alone, a text with a
\* further slash, and a target that does not begin with a slash.
EchoPathTargets ==
    {<<"/">> \o StrEcho,
     PathEcho \o <<"a", "/", "b">>,
     <<"x", "/">> \o StrEcho \o <<"/", "a", "b">>}

EchoPathMenu == {GetRequest(t) : t \in EchoPathTargets} \cup {PostEmpty}

SpecEchoPath == InitWith(EchoPathMenu) /\ [][Next]_vars

\* What is left of a target from offset 6 on, nothing when the target is shorter.
FromOffsetSix(t) == SubSeq(t, 7, Len(t))

\* C14: a GET of any target whose segment after the first slash is echo (/echo
\* itself, /echo/a/b, x/echo/ab) is never aborted and is answered 200 with
\* Content-Type: text/plain, the length of the content, and as content the target
\* from offset 6 on.
C14_EchoEveryPath ==
    \A c \in Conns : \A t \in EchoPathTargets :
        req[c] = GetRequest(t)
            => /\ pc[c] # "Aborted"
               /\ pc[c] = "Closed" => out[c] # <<>>
               /\ out[c] \in {<<>>, WireTextHead \o OneDigit(Len(FromOffsetSix(t)))
                                        \o CRLF \o CRLF \o FromOffsetSix(t)}

\* The same for the targets of six bytes and more, which have an offset 6.
C14_EchoLongPaths ==
    \A c \in Conns : \A t \in {u \in EchoPathTargets : Len(u) >= 6} :
        req[c] = GetRequest(t)
            => /\ pc[c] # "Aborted"
               /\ pc[c] = "Closed" => out[c] # <<>>
               /\ out[c] \in {<<>>, WireTextHead \o OneDigit(Len(FromOffsetSix(t)))
                                        \o CRLF \o CRLF \o FromOffsetSix(t)}

\* GET /user-agent with two lines for the name: "User-Agent: a", then
\* " User-Agent :  b:c " (blanks around the name and the value, a colon in the value).
RepeatedAgentRequest ==
    Request(RequestLine(StrGET, PathUserAgent)
                \o HeaderLine(StrUserAgent, <<"a">>)
                \o <<SP>> \o StrUserAgent \o <<SP, ":", SP, SP, "b", ":", "c", SP>> \o CRLF
                \o CRLF, <<>>)

\* "user-agent: z" in lower case and "User-Agent: a", in the two orders.
LowerFirstRequest ==
    Request(RequestLine(StrGET, PathUserAgent) \o HeaderLine(StrUserAgentRoute, <<"z">>)
                \o HeaderLine(StrUserAgent, <<"a">>) \o CRLF, <<>>)
LowerLastRequest ==
    Request(RequestLine(StrGET, PathUserAgent) \o HeaderLine(StrUserAgent, <<"a">>)
                \o HeaderLine(StrUserAgentRoute, <<"z">>) \o CRLF, <<>>)

HeaderMenu == {RepeatedAgentRequest, LowerFirstRequest, LowerLastRequest, PostEmpty}

SpecHeader == InitWith(HeaderMenu) /\ [][Next]_vars

\* The header loop of c has met the blank line.
HeadersRead(c) == \E i \in 1..Len(log[c]) : log[c][i] = "blank-line"

\* C15: a header line is split at its first colon, name and value are trimmed, the
\* name is matched as written and a later line for a name replaces an earlier one:
\* of "User-Agent: a" and " User-Agent :  b:c " the map keeps User-Agent -> b:c
\* alone and the response body is b:c; and "user-agent: z" and "User-Agent: a"
\* are two names, which give the same map and the same response (a) in either order.
C15_HeaderParsing ==
    \A c \in Conns :
        /\ req[c] = RepeatedAgentRequest
               => /\ pc[c] # "Aborted"
                  /\ pc[c] = "Closed" => out[c] # <<>>
                  /\ out[c] \in {<<>>, WireTextHead \o <<"3">> \o CRLF \o CRLF
                                           \o <<"b", ":", "c">>}
                  /\ HeadersRead(c)
                         => /\ DOMAIN headers[c] = {StrUserAgent}
                            /\ headers[c][StrUserAgent] = <<"b", ":", "c">>
        /\ req[c] \in {LowerFirstRequest, LowerLastRequest}
               => /\ pc[c] # "Aborted"
                  /\ pc[c] = "Closed" => out[c] # <<>>
                  /\ out[c] \in {<<>>, WireTextHead \o <<"1">> \o CRLF \o CRLF \o <<"a">>}
                  /\ HeadersRead(c)
                         => /\ DOMAIN headers[c] = {StrUserAgentRoute, StrUserAgent}
                            /\ headers[c][StrUserAgentRoute] = <<"z">>
                            /\ headers[c][StrUserAgent] = <<"a">>

\* The repeated name answered with b:c, and the two orders of the two names
\* answered alike.
C15_Witness ==
    \E c \in Conns : \E d \in Conns :
        /\ req[c] = RepeatedAgentRequest
        /\ pc[c] = "Closed"
        /\ out[c] = WireTextHead \o <<"3">> \o CRLF \o CRLF \o <<"b", ":", "c">>
        /\ req[d] = LowerLastRequest
        /\ pc[d] = "Closed"
        /\ out[d] = WireTextHead \o <<"1">> \o CRLF \o CRLF \o <<"a">>

\* GET and a token that is no method.
MethodTokens == {StrGET, <<"B", "R", "E", "W">>}

\* A target and the header lines sent with it, for the root, echo, unknown-path and
\* user-agent routes.
RouteBases ==
    {<<PathRoot, <<>>>>,
     <<PathEcho \o <<"a">>, <<>>>>,
     <<PathNonexistent, <<>>>>,
     <<PathUserAgent, HeaderLine(StrUserAgent, <<"c", "/", "1">>)>>}

MethodRequest(m, b) == Request(RequestLine(m, b[1]) \o b[2] \o CRLF, <<>>)

AnyMethodRequests == {MethodRequest(m, b) : m \in MethodTokens, b \in RouteBases}

\* Pairs of requests that differ at most in the method token.
SameButMethod ==
    {<<MethodRequest(m, b), MethodRequest(n, b)>> :
         m \in MethodTokens, n \in MethodTokens, b \in RouteBases}

\* What each base is answered with, as it stands on the wire.
WireForBase ==
    [b \in RouteBases |->
        IF b[1] = PathRoot THEN Wire200Bare
        ELSE IF b[1] = PathNonexistent THEN Wire404Bare
        ELSE IF b[1] = PathUserAgent
        THEN WireTextHead \o <<"3">> \o CRLF \o CRLF \o <<"c", "/", "1">>
        ELSE WireTextHead \o <<"1">> \o CRLF \o CRLF \o <<"a">>]

AnyMethodMenu == AnyMethodRequests \cup {PostEmpty}

SpecAnyMethod == InitWith(AnyMethodMenu) /\ [][Next]_vars

\* C16: on the root, echo, unknown-path and user-agent routes a request is served
\* whatever its method token, one the program names or not: it is never aborted,
\* the response is the one of its route, and two requests that differ only in the
\* method token are answered with the same bytes.
C16_MethodIgnored ==
    /\ \A c \in Conns : \A b \in RouteBases : \A m \in MethodTokens :
          req[c] = MethodRequest(m, b)
              => /\ pc[c] # "Aborted"
                 /\ pc[c] = "Closed" => out[c] # <<>>
                 /\ out[c] \in {<<>>, WireForBase[b]}
    /\ \A c \in Conns : \A d \in Conns :
          (<<req[c], req[d]>> \in SameButMethod /\ pc[c] = "Closed" /\ pc[d] = "Closed")
              => out[c] = out[d]

\* GET /echo/a and BREW /echo/a, both answered with the echo of a.
C16_Witness ==
    \E c \in Conns : \E d \in Conns :
        /\ req[c] = MethodRequest(StrGET, <<PathEcho \o <<"a">>, <<>>>>)
        /\ req[d] = MethodRequest(<<"B", "R", "E", "W">>, <<PathEcho \o <<"a">>, <<>>>>)
        /\ pc[c] = "Closed"
        /\ pc[d] = "Closed"
        /\ out[c] = WireTextHead \o <<"1">> \o CRLF \o CRLF \o <<"a">>
        /\ out[d] = out[c]

\* One request for each kind of response: the echo of nothing, the User-Agent, a
\* file, 400, 404, the root 200 and 201.
ShapeMenu ==
    {GetRequest(PathEcho),
     Request(RequestLine(StrGET, PathUserAgent) \o HeaderLine(StrUserAgent, <<"c", "/", "1">>)
                 \o CRLF, <<>>),
     GetRequest(PathFiles \o NameA),
     Request(RequestLine(StrPUT, PathFiles \o NameA) \o CRLF, <<>>),
     GetRequest(PathNonexistent),
     GetRequest(PathRoot),
     PostEmpty}

SpecShape == InitWith(ShapeMenu) /\ [][Next]_vars

\* Where the first blank line of a message ends its head: the index of the first
\* CR LF CR LF.
BlankAt(w) ==
    CHOOSE i \in 1..(Len(w) - 3) :
        /\ SubSeq(w, i, i + 3) = CRLF \o CRLF
        /\ \A j \in 1..(i - 1) : SubSeq(w, j, j + 3) # CRLF \o CRLF

\* The lines of the head of a message, without their CR LF: the status line first.
WireLines(w) ==
    LET pieces == Split(SubSeq(w, 1, BlankAt(w) + 1), LF)
    IN  [i \in 1..(Len(pieces) - 1) |-> SubSeq(pieces[i], 1, Len(pieces[i]) - 1)]

\* The bytes of a message after its first blank line.
WireBody(w) == SubSeq(w, BlankAt(w) + 4, Len(w))

\* C17: a response value has a body exactly when it has headers; what is written
\* then carries exactly two header lines, Content-Type and Content-Length, and the
\* Content-Length is the number of bytes after the blank line (none for the echo
\* of nothing); written without header lines, a response has no byte after the
\* blank line, and so it is for 201, 400, 404 and the 200 of the root.
C17_ResponseShape ==
    \A c \in Conns :
        /\ IsSome(resp[c])
               => (IsSome(Unwrap(resp[c]).body) <=> IsSome(Unwrap(resp[c]).headers))
        /\ out[c] # <<>>
               => /\ \E i \in 1..(Len(out[c]) - 3) : SubSeq(out[c], i, i + 3) = CRLF \o CRLF
                  /\ LET hl == Tail(WireLines(out[c]))
                         b == WireBody(out[c])
                     IN  /\ \/ hl = <<>> /\ b = <<>> /\ ~IsSome(Unwrap(resp[c]).body)
                            \/ /\ Len(hl) = 2
                               /\ StartsWith(hl[1], StrContentType \o <<":", SP>>)
                               /\ hl[2] = StrContentLength \o <<":", SP>> \o OneDigit(Len(b))
                               /\ Unwrap(resp[c]).body = Some(b)
                         /\ WireLines(out[c])[1] # SubSeq(Wire200Bare, 1, Len(Wire200Bare) - 4)
                                => hl = <<>>
                  /\ req[c] = GetRequest(PathRoot) => out[c] = Wire200Bare
                  /\ req[c] = PostEmpty => out[c] = Wire201Bare

\* A file served with its three bytes and Content-Length: 3, and the echo of
\* nothing served with both header lines, Content-Length: 0 and no byte of body.
C17_Witness ==
    \E c \in Conns : \E d \in Conns :
        /\ req[c] = GetRequest(PathFiles \o NameA)
        /\ out[c] = WireFile(<<"o", "l", "d">>)
        /\ req[d] = GetRequest(PathEcho)
        /\ out[d] = WireTextHead \o <<"0">> \o CRLF \o CRLF

\* A body of two bytes that may arrive in pieces, a body one byte longer than its
\* Content-Length, posted to file b, and a body the client never sends.
PostLong == PostRequest(NameB, 1, <<"y", "z">>)
PostNothing == Request(PostRequest(NameA, 1, <<>>).head, <<>>)
ShortReadMenu == {PostHi, PostLong, PostNothing}

SpecShortRead == InitWith(ShortReadMenu) /\ [][Next]_vars

IsBodyRead(entry) == entry = "body"

\* The Content-Length the POST arm parsed.
PostedLength(c) == Unwrap(ParseUsize(Unwrap(MapGet(headers[c], StrContentLength))))

\* What the reads after the head returned.
BodyTaken(c) == SubSeq(consumed[c], Len(req[c].head) + 1, Len(consumed[c]))

\* Once the body has been read: it was read once, the buffer has n bytes, the k
\* bytes the read returned and then n - k zero bytes, and those k bytes are the
\* first k of what the client set out to send; a task that returned answered 201.
C18_State ==
    \A c \in Conns :
        (\E i \in 1..Len(log[c]) : IsBodyRead(log[c][i]))
            => /\ Len(SelectSeq(log[c], IsBodyRead)) = 1
               /\ Len(body[c]) = PostedLength(c)
               /\ Len(BodyTaken(c)) <= PostedLength(c)
               /\ body[c] = BodyTaken(c) \o Zeros(PostedLength(c) - Len(BodyTaken(c)))
               /\ BodyTaken(c) = SubSeq(req[c].body, 1, Len(BodyTaken(c)))
               /\ pc[c] = "Closed" => out[c] = Wire201Bare

\* The write step: the buffer goes to the file named by the path from offset 7,
\* which then begins with the n bytes of the buffer and, unless a longer write of
\* another task reached the file after this task created it, holds nothing else.
C18_Step ==
    \A c \in Conns :
        (pc[c] = "WriteFile" /\ pc'[c] # "WriteFile")
            => LET p == FilePath(directory, Unwrap(GetFrom(Unwrap(RequestTarget(line[c])), 7)))
               IN  /\ p \in DOMAIN fs'
                   /\ SubSeq(fs'[p], 1, PostedLength(c)) = body[c]
                   /\ Len(fs[p]) <= PostedLength(c) => fs'[p] = body[c]
                   /\ resp'[c] = Some(BareResponse(Created, StrCreated))

PostEmptyB == PostRequest(NameB, 0, <<>>)
PostNoName ==
    Request(RequestLine(StrPOST, <<"/">> \o StrFiles)
                \o HeaderLine(StrContentLength, ToDecimal(0)) \o CRLF, <<>>)
PutToA == Request(RequestLine(StrPUT, PathFiles \o NameA) \o CRLF, <<>>)
FrameMenu ==
    {PostEmptyB, PostNoName, PutToA, GetRequest(PathFiles \o NameA), GetRequest(PathEcho),
     NoAgentRequest, GetRequest(PathRoot), GetRequest(PathNonexistent)}

SpecFrame == InitWith(FrameMenu) /\ [][Next]_vars

\* The task of c is in the POST arm of the files route.
IsFilesPost(c) ==
    /\ IsSome(RequestMethod(line[c]))
    /\ Unwrap(RequestMethod(line[c])) = StrPOST
    /\ IsSome(RequestTarget(line[c]))
    /\ RouteSegment(Unwrap(RequestTarget(line[c]))) = Some(StrFiles)

\* Every file but the one at path p is the same before and after the step.
OthersUnchanged(p) ==
    /\ DOMAIN fs \ {p} = DOMAIN fs' \ {p}
    /\ \A x \in DOMAIN fs \ {p} : fs'[x] = fs[x]

C19_Step ==
    /\ directory' = directory
    /\ \A c \in Conns :
          (pc'[c] # pc[c] \/ out'[c] # out[c] \/ consumed'[c] # consumed[c])
              => \/ fs' = fs
                 \/ /\ IsFilesPost(c)
                    /\ pc[c] \in {"CreateFile", "WriteFile"}
                    /\ IsSome(GetFrom(Unwrap(RequestTarget(line[c])), 7))
                    /\ OthersUnchanged(FilePath(directory,
                           Unwrap(GetFrom(Unwrap(RequestTarget(line[c])), 7))))
    /\ fs' # fs => \E c \in Conns : IsFilesPost(c) /\ pc'[c] # pc[c]

\* C19: the file store changes only in a step of a POST whose first path segment
\* is "files", and then only in the file at <directory>/<path from offset 7>;
\* every step of any other request, and every step that aborts a task, leaves the
\* file store as it was; the directory string stays what it was at startup.
C19_Frame == [](directory = Dir) /\ [][C19_Step]_vars

\* File b has been created by a POST that was answered, file a is what it was at
\* startup, and a PUT to file a has been answered 400.
C19_Witness ==
    \E c \in Conns : \E d \in Conns :
        /\ req[c] = PostEmptyB
        /\ pc[c] = "Closed"
        /\ PathB \in DOMAIN fs
        /\ fs[PathA] = InitialStore[PathA]
        /\ req[d] = PutToA
        /\ out[d] = Wire400Bare

====
